---- MODULE Spec2Model ----
(***************************************************************************)
(* Pycross (src/cross.py): a crosshair overlay, its settings dialog, its   *)
(* tray icon and the settings.json store, as one state machine.            *)
(*                                                                         *)
(* settings.json is modelled as a sequence of JSON tokens: json.dump       *)
(* formats every integer into decimal digit tokens and json.load parses    *)
(* the token sequence back, so writing and reading are two different       *)
(* computations.  An unhandled Python exception inside a Qt slot or a      *)
(* virtual reimplementation ends the process (PyQt5 calls qFatal, which    *)
(* aborts); an unhandled exception at module level ends it with code 1.    *)
(* When a process ends its windows and objects are gone; only the file     *)
(* outlives it, and the program can be started again.                      *)
(*                                                                         *)
(* The events are those the source connects a handler to, each handler     *)
(* running to completion.  The colour prompt is one step that yields the   *)
(* confirmed colour or, when cancelled, an invalid one.  The window        *)
(* manager's own close button on the dialog has no handler in the source   *)
(* and is not modelled.                                                    *)
(***************************************************************************)
EXTENDS Integers, Sequences, FiniteSets, TLC

\* ------------------------------------------------------------- bounds
\* Slider inputs are drawn from the two ends of each range and the first
\* MaxOffset values above its minimum; the colour prompt offers white and
\* MaxOffset + 1 other colours.
MaxOffset == 0
\* A write that fails midway leaves at most this many tokens in the file.
MaxPartial == 2

\* ------------------------------------------------- program constants
SIZE_MIN == 1
SIZE_MAX == 20
THICKNESS_MIN == 1
THICKNESS_MAX == 10
TRANSPARENCY_MIN == 0
TRANSPARENCY_MAX == 255
CHANNEL_MAX == 255
DEFAULT_SIZE == 3
DEFAULT_THICKNESS == 2
DEFAULT_TRANSPARENCY == 255

\* ---------------------------------------------------------- QColor
\* QColor(r, g, b): channels outside 0..255 give an invalid colour, whose
\* red(), green() and blue() all read 0.
QColor(r, g, b) ==
    IF r \in 0..CHANNEL_MAX /\ g \in 0..CHANNEL_MAX /\ b \in 0..CHANNEL_MAX
    THEN [valid |-> TRUE, r |-> r, g |-> g, b |-> b]
    ELSE [valid |-> FALSE, r |-> 0, g |-> 0, b |-> 0]

\* The colour QColorDialog.getColor returns when the prompt is cancelled.
InvalidColor == [valid |-> FALSE, r |-> 0, g |-> 0, b |-> 0]

\* ------------------------------------------------------ JSON values
JNum(n) == [k |-> "num", n |-> n, s |-> "", m |-> <<>>]
JStr(s) == [k |-> "str", n |-> 0, s |-> s, m |-> <<>>]
\* An object is the sequence of its <<key, value>> members, in file order.
JObj(m) == [k |-> "obj", n |-> 0, s |-> "", m |-> m]

HasKey(obj, key) == \E i \in 1..Len(obj.m) : obj.m[i][1] = key

\* dict lookup: with a repeated key the last member wins.
Get(obj, key) ==
    LET i == CHOOSE j \in 1..Len(obj.m) :
                 /\ obj.m[j][1] = key
                 /\ \A l \in (j+1)..Len(obj.m) : obj.m[l][1] # key
    IN obj.m[i][2]

\* ------------------------------------------------------- JSON text
\* A token is <<kind, text>>: punctuation "p", one decimal digit "d",
\* or a string literal "s".
P(c) == <<"p", c>>
S(c) == <<"s", c>>
DigitChar == <<"0", "1", "2", "3", "4", "5", "6", "7", "8", "9">>
D(d) == <<"d", DigitChar[d + 1]>>
DigitVal(tok) == (CHOOSE i \in 1..10 : DigitChar[i] = tok[2]) - 1
IsDigit(tok) == tok[1] = "d"

\* Mutant of NatToks: the digits come out least significant first.
RECURSIVE NatToks_lsd_first(_)
NatToks_lsd_first(n) ==
    IF n < 10 THEN <<D(n)>> ELSE <<D(n % 10)>> \o NatToks_lsd_first(n \div 10)

RECURSIVE NatToks(_)
NatToks(n) == IF n < 10 THEN <<D(n)>> ELSE NatToks(n \div 10) \o <<D(n % 10)>>

\* The encoder's text of an integer.
IntToks(n) == IF n < 0 THEN <<P("-")>> \o NatToks(-n) ELSE NatToks(n)

\* json.dump(settings, f) for the dict save_settings builds.
json_dump(settings) ==
    <<P("{"), S("size"), P(":")>> \o IntToks(settings.size)
    \o <<P(","), S("thickness"), P(":")>> \o IntToks(settings.thickness)
    \o <<P(","), S("color"), P(":"), P("{"), S("r"), P(":")>>
    \o IntToks(settings.color.r)
    \o <<P(","), S("g"), P(":")>> \o IntToks(settings.color.g)
    \o <<P(","), S("b"), P(":")>> \o IntToks(settings.color.b)
    \o <<P("}"), P(","), S("transparency"), P(":")>>
    \o IntToks(settings.transparency)
    \o <<P("}")>>

ParseFail == [ok |-> FALSE, val |-> JNum(0), rest |-> <<>>]
ParseOk(v, rest) == [ok |-> TRUE, val |-> v, rest |-> rest]

\* Number of leading digit tokens of toks.
RECURSIVE DigitRun(_)
DigitRun(toks) ==
    IF toks # <<>> /\ IsDigit(Head(toks)) THEN 1 + DigitRun(Tail(toks)) ELSE 0

RECURSIVE DigitsVal(_)
DigitsVal(ds) ==
    IF ds = <<>> THEN 0
    ELSE 10 * DigitsVal(SubSeq(ds, 1, Len(ds) - 1)) + DigitVal(ds[Len(ds)])

\* An unsigned integer literal: "0", or a run of digits not starting with 0.
ParseNat(toks) ==
    LET run == DigitRun(toks)
        n   == IF run > 0 /\ toks[1] = D(0) THEN 1 ELSE run
    IN IF run = 0 THEN ParseFail
       ELSE ParseOk(JNum(DigitsVal(SubSeq(toks, 1, n))),
                    SubSeq(toks, n + 1, Len(toks)))

ParseNumber(toks) ==
    IF toks # <<>> /\ Head(toks) = P("-")
    THEN LET r == ParseNat(Tail(toks))
         IN IF r.ok THEN ParseOk(JNum(0 - r.val.n), r.rest) ELSE ParseFail
    ELSE ParseNat(toks)

RECURSIVE ParseValue(_)
RECURSIVE ParseMembers(_, _)
\* One JSON value at the head of toks.
ParseValue(toks) ==
    IF toks = <<>> THEN ParseFail
    ELSE IF IsDigit(Head(toks)) \/ Head(toks) = P("-") THEN ParseNumber(toks)
    ELSE IF Head(toks)[1] = "s" THEN ParseOk(JStr(Head(toks)[2]), Tail(toks))
    ELSE IF Head(toks) = P("{")
         THEN IF Len(toks) >= 2 /\ toks[2] = P("}")
              THEN ParseOk(JObj(<<>>), SubSeq(toks, 3, Len(toks)))
              ELSE ParseMembers(Tail(toks), <<>>)
    ELSE ParseFail

\* The members of an object after its "{": key ":" value, then "," or "}".
ParseMembers(toks, acc) ==
    IF Len(toks) < 2 \/ toks[1][1] # "s" \/ toks[2] # P(":") THEN ParseFail
    ELSE LET v == ParseValue(SubSeq(toks, 3, Len(toks)))
         IN IF ~v.ok \/ v.rest = <<>> THEN ParseFail
            ELSE LET acc2 == Append(acc, <<toks[1][2], v.val>>)
                 IN IF Head(v.rest) = P("}")
                    THEN ParseOk(JObj(acc2), Tail(v.rest))
                    ELSE IF Head(v.rest) = P(",")
                    THEN ParseMembers(Tail(v.rest), acc2)
                    ELSE ParseFail

\* json.load(f): the whole text must be one value (else JSONDecodeError).
json_load(text) ==
    LET r == ParseValue(text)
    IN IF r.ok /\ r.rest = <<>> THEN [ok |-> TRUE, val |-> r.val]
       ELSE [ok |-> FALSE, val |-> JNum(0)]

\* ------------------------------------------------------ settings store
\* What a call of load_settings does: it returns a 4-tuple or it raises.
\* size, thickness and transparency are whatever JSON values the file held.
Return(size, thickness, color, transparency) ==
    [outcome |-> "return", exc |-> "", size |-> size, thickness |-> thickness,
     color |-> color, transparency |-> transparency]

DefaultSettings ==
    Return(JNum(DEFAULT_SIZE), JNum(DEFAULT_THICKNESS),
           QColor(CHANNEL_MAX, CHANNEL_MAX, CHANNEL_MAX),
           JNum(DEFAULT_TRANSPARENCY))

Raise(exc) ==
    [outcome |-> "raise", exc |-> exc, size |-> JNum(0), thickness |-> JNum(0),
     color |-> InvalidColor, transparency |-> JNum(0)]

\* No call of load_settings has been made yet.
NotLoaded ==
    [outcome |-> "none", exc |-> "", size |-> JNum(0), thickness |-> JNum(0),
     color |-> InvalidColor, transparency |-> JNum(0)]

\* v[key] in Python: KeyError on a dict without the key, TypeError on a
\* value that is not a dict.
Subscript(v, key) ==
    IF v.k = "obj"
    THEN IF HasKey(v, key) THEN [exc |-> "", val |-> Get(v, key)]
         ELSE [exc |-> "KeyError", val |-> JNum(0)]
    ELSE [exc |-> "TypeError", val |-> JNum(0)]

\* The first exception raised by a sequence of evaluations ("" if none).
RECURSIVE FirstExc(_)
FirstExc(excs) ==
    IF excs = <<>> THEN ""
    ELSE IF Head(excs) # "" THEN Head(excs) ELSE FirstExc(Tail(excs))

\* load_settings(): file is settings.json, readable says whether open(...,
\* "r") is permitted.  Only FileNotFoundError and KeyError are caught.
load_settings(file, readable) ==
    IF ~file.exists THEN DefaultSettings
    ELSE IF ~readable THEN Raise("PermissionError")
    ELSE LET doc == json_load(file.text)
         IN IF ~doc.ok THEN Raise("JSONDecodeError")
            ELSE LET size == Subscript(doc.val, "size")
                     thickness == Subscript(doc.val, "thickness")
                     color == Subscript(doc.val, "color")
                     r == IF color.exc = "" THEN Subscript(color.val, "r") ELSE color
                     g == IF color.exc = "" THEN Subscript(color.val, "g") ELSE color
                     b == IF color.exc = "" THEN Subscript(color.val, "b") ELSE color
                     ctor == IF r.val.k = "num" /\ g.val.k = "num" /\ b.val.k = "num"
                             THEN "" ELSE "TypeError"
                     transparency == Subscript(doc.val, "transparency")
                     exc == FirstExc(<<size.exc, thickness.exc, r.exc, g.exc,
                                       b.exc, ctor, transparency.exc>>)
                 IN IF exc = ""
                    THEN Return(size.val, thickness.val,
                                QColor(r.val.n, g.val.n, b.val.n),
                                transparency.val)
                    ELSE IF exc = "KeyError" THEN DefaultSettings
                    ELSE Raise(exc)

\* What the file system does to one save: the write completes, open(...,
\* "w") is refused, or the write fails after open truncated the file and
\* k tokens went out.
SaveOutcomes ==
    {[kind |-> "ok", k |-> 0], [kind |-> "open_fails", k |-> 0]}
    \cup {[kind |-> "write_fails", k |-> k] : k \in 0..MaxPartial}

\* save_settings(size, thickness, color, transparency) under outcome io:
\* the file afterwards, and whether the call raised.
save_settings(file, size, thickness, color, transparency, io) ==
    LET settings == [size |-> size, thickness |-> thickness,
                     color |-> [r |-> color.r, g |-> color.g, b |-> color.b],
                     transparency |-> transparency]
        text == json_dump(settings)
    IN CASE io.kind = "ok" ->
              [file |-> [exists |-> TRUE, text |-> text], raised |-> FALSE]
         [] io.kind = "open_fails" ->
              [file |-> file, raised |-> TRUE]
         [] io.kind = "write_fails" ->
              [file |-> [exists |-> TRUE, text |-> SubSeq(text, 1, io.k)],
               raised |-> TRUE]

\* ------------------------------------------------------------- state
VARIABLES
    pc,         \* "off", "running", "quitting" (quit() called, exec_ not yet
                \* returned), "exited" (sys.exit) or "aborted" (qFatal)
    exitCode,   \* the last process's exit status (-1: none yet)
    file,       \* settings.json: [exists, text]
    loaded,     \* what the last call of load_settings did
    overlay,    \* the CrosshairOverlay: size, thickness, color, transparency, visible
    dialog,     \* tray.settings_window: the three sliders, color, visible
    tray        \* the SystemTrayIcon: is_overlay_visible, toggle_action's text

vars == <<pc, exitCode, file, loaded, overlay, dialog, tray>>

\* ------------------------------------------------------------ inputs
Clamp(v, lo, hi) == IF v < lo THEN lo ELSE IF v > hi THEN hi ELSE v

Picks(lo, hi) == {lo, hi} \cup {v \in lo..hi : v - lo <= MaxOffset}

SizePicks == Picks(SIZE_MIN, SIZE_MAX)
ThicknessPicks == Picks(THICKNESS_MIN, THICKNESS_MAX)
TransparencyPicks == Picks(TRANSPARENCY_MIN, TRANSPARENCY_MAX)

\* The colours the user confirms in the colour prompt.
Palette ==
    {QColor(CHANNEL_MAX, CHANNEL_MAX, CHANNEL_MAX)}
    \cup {QColor(c, CHANNEL_MAX - c, 7 * c + 20) : c \in 0..MaxOffset}

\* QSystemTrayIcon.ActivationReason
ActivationReasons == {"Trigger", "Context", "DoubleClick", "MiddleClick"}

Missing == [exists |-> FALSE, text |-> <<>>]
Text(t) == [exists |-> TRUE, text |-> t]

RECURSIVE JoinMembers(_)
JoinMembers(ms) ==
    IF ms = <<>> THEN <<>>
    ELSE <<S(Head(ms)[1]), P(":")>> \o Head(ms)[2]
         \o (IF Len(ms) > 1 THEN <<P(",")>> ELSE <<>>) \o JoinMembers(Tail(ms))

\* The text of an object with the given <<key, value text>> members.
ObjToks(ms) == <<P("{")>> \o JoinMembers(ms) \o <<P("}")>>

ColorToks(r, g, b) == ObjToks(<<<<"r", r>>, <<"g", g>>, <<"b", b>>>>)

RecordToks(size, thickness, color, transparency) ==
    ObjToks(<<<<"size", size>>, <<"thickness", thickness>>,
              <<"color", color>>, <<"transparency", transparency>>>>)

White == ColorToks(IntToks(255), IntToks(255), IntToks(255))

\* The contents settings.json may have when the program is first started.
SampleFiles ==
    { Missing,
      \* complete records, in range
      Text(RecordToks(IntToks(3), IntToks(2), White, IntToks(255))),
      Text(RecordToks(IntToks(20), IntToks(10),
                      ColorToks(IntToks(0), IntToks(255), IntToks(20)), IntToks(0))),
      \* complete records with integers out of range
      Text(RecordToks(IntToks(50), IntToks(2), White, IntToks(255))),
      Text(RecordToks(IntToks(3), IntToks(0), White, IntToks(255))),
      Text(RecordToks(IntToks(3), IntToks(2), White, IntToks(300))),
      Text(RecordToks(IntToks(-1), IntToks(2),
                      ColorToks(IntToks(300), IntToks(255), IntToks(255)), IntToks(255))),
      \* a field missing
      Text(ObjToks(<<>>)),
      Text(ObjToks(<<<<"thickness", IntToks(2)>>, <<"color", White>>,
                     <<"transparency", IntToks(255)>>>>)),
      Text(ObjToks(<<<<"size", IntToks(20)>>, <<"thickness", IntToks(10)>>,
                     <<"transparency", IntToks(0)>>>>)),
      Text(RecordToks(IntToks(20), IntToks(10),
                      ObjToks(<<<<"r", IntToks(0)>>, <<"b", IntToks(0)>>>>), IntToks(0))),
      Text(ObjToks(<<<<"size", IntToks(20)>>, <<"thickness", IntToks(10)>>,
                     <<"color", White>>>>)),
      \* values of the wrong type
      Text(IntToks(7)),
      Text(RecordToks(<<S("big")>>, IntToks(2), White, IntToks(255))),
      Text(RecordToks(IntToks(3), IntToks(2), IntToks(5), IntToks(255))),
      Text(RecordToks(IntToks(3), IntToks(2),
                      ColorToks(<<S("red")>>, IntToks(0), IntToks(0)), IntToks(255))),
      \* not JSON
      Text(<<>>),
      Text(<<P("{"), S("size"), P(":"), D(3)>>),
      Text(RecordToks(<<D(0), D(3)>>, IntToks(2), White, IntToks(255)))
    }

\* -------------------------------------------------------------- widgets
\* CrosshairOverlay.__init__: the four attributes; showFullScreen() shows it.
CrosshairOverlay(size, thickness, color, transparency) ==
    [size |-> size, thickness |-> thickness, color |-> color,
     transparency |-> transparency, visible |-> TRUE]

NoOverlay ==
    [size |-> 0, thickness |-> 0, color |-> InvalidColor, transparency |-> 0,
     visible |-> FALSE]

set_crosshair_properties(ov, size, thickness, color, transparency) ==
    [ov EXCEPT !.size = size, !.thickness = thickness, !.color = color,
               !.transparency = transparency]

\* paintEvent on a window of the given width and height: the pen, the
\* brush and the rectangle handed to drawEllipse.
paintEvent(ov, width, height) ==
    LET center_x == width \div 2
        center_y == height \div 2
        dot_radius == ov.size
    IN [pen |-> [rgba |-> <<0, 0, 0, ov.transparency>>, width |-> ov.thickness],
        brush |-> <<ov.color.r, ov.color.g, ov.color.b, ov.transparency>>,
        rect |-> <<center_x - dot_radius, center_y - dot_radius,
                   dot_radius * 2, dot_radius * 2>>]

\* SettingsWindow.__init__: each slider gets its range, then setValue (which
\* clamps to the range) before valueChanged is connected; color is the
\* overlay's colour.  The window is not shown yet.
SettingsWindow(ov) ==
    [visible |-> FALSE,
     size_slider |-> Clamp(ov.size, SIZE_MIN, SIZE_MAX),
     thickness_slider |-> Clamp(ov.thickness, THICKNESS_MIN, THICKNESS_MAX),
     transparency_slider |->
         Clamp(ov.transparency, TRANSPARENCY_MIN, TRANSPARENCY_MAX),
     color |-> ov.color]

NoDialog ==
    [visible |-> FALSE, size_slider |-> 0, thickness_slider |-> 0,
     transparency_slider |-> 0, color |-> InvalidColor]

\* Mutant of update_settings: the overlay keeps its own colour.
update_settings_stale_color(dlg, ov) ==
    set_crosshair_properties(ov, dlg.size_slider, dlg.thickness_slider,
                             ov.color, dlg.transparency_slider)

\* SettingsWindow.update_settings: the overlay after the push.
update_settings(dlg, ov) ==
    set_crosshair_properties(ov, dlg.size_slider, dlg.thickness_slider,
                             dlg.color, dlg.transparency_slider)

\* SystemTrayIcon.__init__
SystemTrayIcon == [is_overlay_visible |-> TRUE, toggle_text |-> "Hide Crosshair"]

NoTray == [is_overlay_visible |-> FALSE, toggle_text |-> ""]

\* --------------------------------------------------------------- Init
Init ==
    /\ pc = "off"
    /\ exitCode = -1
    /\ file \in SampleFiles
    /\ loaded = NotLoaded
    /\ overlay = NoOverlay
    /\ dialog = NoDialog
    /\ tray = NoTray

\* ------------------------------------------------------------ startup
Stopped == pc \in {"off", "exited", "aborted"}

IsInt(v) == v.k = "num"

\* __main__ without a system tray: prints and calls sys.exit() before
\* anything is loaded or created.
main_no_tray ==
    /\ Stopped
    /\ pc' = "exited"
    /\ exitCode' = 0
    /\ loaded' = NotLoaded
    /\ UNCHANGED <<file, overlay, dialog, tray>>

\* __main__ up to the call of load_settings.  When it raises, the
\* traceback ends the process with code 1.
main_load(readable) ==
    /\ Stopped
    /\ loaded' = load_settings(file, readable)
    /\ pc' = IF loaded'.outcome = "raise" THEN "exited" ELSE "loaded"
    /\ exitCode' = IF loaded'.outcome = "raise" THEN 1 ELSE -1
    /\ UNCHANGED <<file, overlay, dialog, tray>>

\* __main__ with a loaded size, thickness or transparency that is not an
\* integer: the overlay is built with it and its first paintEvent raises
\* TypeError, which ends the process.
main_paint_raises ==
    /\ pc = "loaded"
    /\ ~(IsInt(loaded.size) /\ IsInt(loaded.thickness) /\ IsInt(loaded.transparency))
    /\ pc' = "aborted"
    /\ exitCode' = 134
    /\ loaded' = NotLoaded
    /\ UNCHANGED <<file, overlay, dialog, tray>>

\* __main__ from the loaded tuple to app.exec_(): build and show the
\* overlay, build the tray icon.  Without dot.ico the tray icon's
\* constructor reports the error and calls sys.exit(1).  The tuple is
\* unpacked into the overlay and not read again.
main(icon_exists) ==
    /\ pc = "loaded"
    /\ IsInt(loaded.size) /\ IsInt(loaded.thickness) /\ IsInt(loaded.transparency)
    /\ loaded' = NotLoaded
    /\ dialog' = NoDialog
    /\ IF icon_exists
       THEN /\ pc' = "running"
            /\ exitCode' = -1
            /\ overlay' = CrosshairOverlay(loaded.size.n, loaded.thickness.n,
                                           loaded.color, loaded.transparency.n)
            /\ tray' = SystemTrayIcon
       ELSE /\ pc' = "exited"
            /\ exitCode' = 1
            /\ overlay' = NoOverlay
            /\ tray' = NoTray
    /\ UNCHANGED file

\* ----------------------------------------------------------- tray icon
\* Mutant of toggle_overlay_tray: is_overlay_visible is not flipped.
toggle_overlay_tray_keeps_flag(t) ==
    [is_overlay_visible |-> t.is_overlay_visible,
     toggle_text |-> IF t.is_overlay_visible THEN "Show Crosshair"
                     ELSE "Hide Crosshair"]

\* SystemTrayIcon.toggle_overlay: the tray after the toggle.
toggle_overlay_tray(t) ==
    [is_overlay_visible |-> ~t.is_overlay_visible,
     toggle_text |-> IF t.is_overlay_visible THEN "Show Crosshair"
                     ELSE "Hide Crosshair"]

\* SystemTrayIcon.toggle_overlay: the overlay after the toggle.
toggle_overlay_overlay(t, ov) ==
    [ov EXCEPT !.visible = ~t.is_overlay_visible]

\* The menu's Hide/Show Crosshair item.
toggle_overlay ==
    /\ pc = "running"
    /\ overlay' = toggle_overlay_overlay(tray, overlay)
    /\ tray' = toggle_overlay_tray(tray)
    /\ UNCHANGED <<pc, exitCode, file, loaded, dialog>>

\* An activation of the tray icon: only a left click (Trigger) toggles.
on_tray_icon_activated(reason) ==
    /\ pc = "running"
    /\ IF reason = "Trigger"
       THEN /\ overlay' = toggle_overlay_overlay(tray, overlay)
            /\ tray' = toggle_overlay_tray(tray)
       ELSE UNCHANGED <<overlay, tray>>
    /\ UNCHANGED <<pc, exitCode, file, loaded, dialog>>

\* The menu's Settings item: a new SettingsWindow replaces the old one and
\* is shown.
open_settings ==
    /\ pc = "running"
    /\ dialog' = [SettingsWindow(overlay) EXCEPT !.visible = TRUE]
    /\ UNCHANGED <<pc, exitCode, file, loaded, overlay, tray>>

\* Mutant of exit_app: app.quit() without hiding the overlay.
exit_app_no_hide ==
    /\ pc = "running"
    /\ pc' = "quitting"
    /\ UNCHANGED <<exitCode, file, loaded, overlay, dialog, tray>>

\* The menu's Exit item: hide the overlay, then app.quit().
exit_app ==
    /\ pc = "running"
    /\ overlay' = [overlay EXCEPT !.visible = FALSE]
    /\ pc' = "quitting"
    /\ UNCHANGED <<exitCode, file, loaded, dialog, tray>>

\* app.exec_() returns 0 after quit(), and sys.exit(0) ends the process:
\* its windows and objects are gone.
main_return ==
    /\ pc = "quitting"
    /\ pc' = "exited"
    /\ exitCode' = 0
    /\ overlay' = NoOverlay
    /\ dialog' = NoDialog
    /\ tray' = NoTray
    /\ UNCHANGED <<file, loaded>>

\* ------------------------------------------------------ settings dialog
Sliders == {"size_slider", "thickness_slider", "transparency_slider"}

SliderPicks(slider) ==
    CASE slider = "size_slider" -> SizePicks
      [] slider = "thickness_slider" -> ThicknessPicks
      [] slider = "transparency_slider" -> TransparencyPicks

\* Mutant of valueChanged: the slider move also saves the settings.
valueChanged_saving(slider, v) ==
    /\ pc = "running"
    /\ dialog.visible
    /\ v # dialog[slider]
    /\ dialog' = [dialog EXCEPT ![slider] = v]
    /\ overlay' = update_settings(dialog', overlay)
    /\ file' = save_settings(file, overlay'.size, overlay'.thickness,
                             overlay'.color, overlay'.transparency,
                             [kind |-> "ok", k |-> 0]).file
    /\ UNCHANGED <<pc, exitCode, loaded, tray>>

\* The user moves a slider of the shown dialog to another value of its
\* range; valueChanged runs update_settings.
valueChanged(slider, v) ==
    /\ pc = "running"
    /\ dialog.visible
    /\ v # dialog[slider]
    /\ dialog' = [dialog EXCEPT ![slider] = v]
    /\ overlay' = update_settings(dialog', overlay)
    /\ UNCHANGED <<pc, exitCode, file, loaded, tray>>

\* Choose Color: the prompt returns the confirmed colour, or an invalid
\* colour when it is cancelled.
open_color_dialog(color) ==
    /\ pc = "running"
    /\ dialog.visible
    /\ IF color.valid
       THEN /\ dialog' = [dialog EXCEPT !.color = color]
            /\ overlay' = update_settings(dialog', overlay)
       ELSE UNCHANGED <<dialog, overlay>>
    /\ UNCHANGED <<pc, exitCode, file, loaded, tray>>

\* Mutant of apply_settings: the overlay is saved before the sliders are
\* pushed to it.
apply_settings_save_first(io) ==
    LET ov == update_settings(dialog, overlay)
        saved == save_settings(file, overlay.size, overlay.thickness,
                               overlay.color, overlay.transparency, io)
    IN /\ pc = "running"
       /\ dialog.visible
       /\ file' = saved.file
       /\ IF saved.raised
          THEN /\ pc' = "aborted"
               /\ exitCode' = 134
               /\ overlay' = NoOverlay
               /\ dialog' = NoDialog
               /\ tray' = NoTray
          ELSE /\ overlay' = ov
               /\ dialog' = [dialog EXCEPT !.visible = FALSE]
               /\ UNCHANGED <<pc, exitCode, tray>>
       /\ UNCHANGED loaded

\* Apply: update_settings, save_settings of the overlay's attributes, hide.
\* When save_settings raises, hide() is not reached and the exception ends
\* the process.
apply_settings(io) ==
    LET ov == update_settings(dialog, overlay)
        saved == save_settings(file, ov.size, ov.thickness, ov.color,
                               ov.transparency, io)
    IN /\ pc = "running"
       /\ dialog.visible
       /\ file' = saved.file
       /\ IF saved.raised
          THEN /\ pc' = "aborted"
               /\ exitCode' = 134
               /\ overlay' = NoOverlay
               /\ dialog' = NoDialog
               /\ tray' = NoTray
          ELSE /\ overlay' = ov
               /\ dialog' = [dialog EXCEPT !.visible = FALSE]
               /\ UNCHANGED <<pc, exitCode, tray>>
       /\ UNCHANGED loaded

\* ---------------------------------------------------------------- Spec
Next ==
    \/ main_no_tray
    \/ \E readable \in BOOLEAN : main_load(readable)
    \/ main_paint_raises
    \/ \E icon_exists \in BOOLEAN : main(icon_exists)
    \/ toggle_overlay
    \/ \E reason \in ActivationReasons : on_tray_icon_activated(reason)
    \/ open_settings
    \/ exit_app
    \/ main_return
    \/ \E slider \in Sliders : \E v \in SliderPicks(slider) : valueChanged(slider, v)
    \/ \E color \in Palette \cup {InvalidColor} : open_color_dialog(color)
    \/ \E io \in SaveOutcomes : apply_settings(io)

Spec == Init /\ [][Next]_vars

\* exec_() returns once quit() has been called.
LiveSpec == Spec /\ WF_vars(main_return)

\* ------------------------------------------- save then load, in isolation
\* A call of save_settings followed by a call of load_settings, for every
\* size and thickness of the sliders' ranges.  overlay holds the arguments
\* (apply_settings passes the overlay's attributes), loaded the result.
RoundTripTransparencies == TransparencyPicks \cup {9, 10, 99, 100}

InitRT ==
    /\ pc = "rt_args"
    /\ exitCode = -1
    /\ file \in {Missing, Text(<<>>),
                 Text(RecordToks(IntToks(3), IntToks(2), White, IntToks(255)))}
    /\ loaded = NotLoaded
    /\ \E size \in SIZE_MIN..SIZE_MAX, thickness \in THICKNESS_MIN..THICKNESS_MAX,
          color \in Palette, transparency \in RoundTripTransparencies :
          overlay = CrosshairOverlay(size, thickness, color, transparency)
    /\ dialog = NoDialog
    /\ tray = NoTray

rt_save(io) ==
    LET saved == save_settings(file, overlay.size, overlay.thickness,
                               overlay.color, overlay.transparency, io)
    IN /\ pc = "rt_args"
       /\ file' = saved.file
       /\ pc' = IF saved.raised THEN "rt_save_raised" ELSE "rt_saved"
       /\ UNCHANGED <<exitCode, loaded, overlay, dialog, tray>>

rt_load ==
    /\ pc = "rt_saved"
    /\ loaded' = load_settings(file, TRUE)
    /\ pc' = "rt_loaded"
    /\ UNCHANGED <<exitCode, file, overlay, dialog, tray>>

NextRT ==
    \/ \E io \in SaveOutcomes : rt_save(io)
    \/ rt_load

SpecRT == InitRT /\ [][NextRT]_vars

\* ------------------------------------------------------------ properties
Appearance(ov) ==
    <<ov.size, ov.thickness, <<ov.color.r, ov.color.g, ov.color.b>>, ov.transparency>>

DialogAppearance(dlg) ==
    <<dlg.size_slider, dlg.thickness_slider,
      <<dlg.color.r, dlg.color.g, dlg.color.b>>, dlg.transparency_slider>>

InRange(ov) ==
    /\ ov.size \in SIZE_MIN..SIZE_MAX
    /\ ov.thickness \in THICKNESS_MIN..THICKNESS_MAX
    /\ ov.transparency \in TRANSPARENCY_MIN..TRANSPARENCY_MAX
    /\ ov.color.r \in 0..CHANNEL_MAX
    /\ ov.color.g \in 0..CHANNEL_MAX
    /\ ov.color.b \in 0..CHANNEL_MAX

IntField(obj, key) == obj.k = "obj" /\ HasKey(obj, key) /\ IsInt(Get(obj, key))

\* The file holds one complete record: a JSON object with size, thickness,
\* transparency and color.r, color.g, color.b, all integers.
CompleteRecord(f) ==
    /\ f.exists
    /\ LET doc == json_load(f.text)
       IN /\ doc.ok
          /\ IntField(doc.val, "size")
          /\ IntField(doc.val, "thickness")
          /\ IntField(doc.val, "transparency")
          /\ doc.val.k = "obj" /\ HasKey(doc.val, "color")
          /\ IntField(Get(doc.val, "color"), "r")
          /\ IntField(Get(doc.val, "color"), "g")
          /\ IntField(Get(doc.val, "color"), "b")

\* The record a complete file holds, as an appearance.
PersistedRecord(f) ==
    LET doc == json_load(f.text).val
        color == Get(doc, "color")
    IN <<Get(doc, "size").n, Get(doc, "thickness").n,
         <<Get(color, "r").n, Get(color, "g").n, Get(color, "b").n>>,
         Get(doc, "transparency").n>>

\* A complete record whose values are all within the declared ranges.
WellFormed(f) ==
    /\ CompleteRecord(f)
    /\ LET rec == PersistedRecord(f)
       IN /\ rec[1] \in SIZE_MIN..SIZE_MAX
          /\ rec[2] \in THICKNESS_MIN..THICKNESS_MAX
          /\ \A i \in 1..3 : rec[3][i] \in 0..CHANNEL_MAX
          /\ rec[4] \in TRANSPARENCY_MIN..TRANSPARENCY_MAX

\* The primary screen's size when the overlay window reads its geometry.
ScreenSizes == {<<1920, 1080>>, <<1365, 767>>}

\* C1: load_settings never raises, and on every file that does not hold a
\* complete in-range record (missing, unreadable, not JSON, a field missing
\* or malformed) it returns exactly the default tuple.
C1_LoadTotal ==
    loaded.outcome # "none" =>
        /\ loaded.outcome = "return"
        /\ ~WellFormed(file) => loaded = DefaultSettings

\* C2: save_settings of any size in 1..20, thickness in 1..10, transparency
\* in 0..255 and RGB colour, when the write completes, followed by
\* load_settings returns the same size, thickness, transparency and the
\* same r, g, b.
C2_RoundTrip ==
    pc = "rt_loaded" =>
        /\ loaded.outcome = "return"
        /\ loaded.size = JNum(overlay.size)
        /\ loaded.thickness = JNum(overlay.thickness)
        /\ loaded.transparency = JNum(overlay.transparency)
        /\ loaded.color.valid
        /\ <<loaded.color.r, loaded.color.g, loaded.color.b>>
             = <<overlay.color.r, overlay.color.g, overlay.color.b>>

C2_Witness ==
    /\ pc = "rt_loaded"
    /\ overlay.size = SIZE_MAX
    /\ overlay.thickness = THICKNESS_MAX
    /\ overlay.transparency = 100
    /\ overlay.color = QColor(0, CHANNEL_MAX, 20)

\* C3: while the program runs, whatever settings.json held at startup, the
\* overlay's size, thickness, transparency and colour channels are within
\* their ranges.
C3_AppearanceInRange ==
    pc \in {"running", "quitting"} => InRange(overlay)

\* C4: only Apply writes settings.json: a step that changes the file is a
\* step of apply_settings.
C4_OnlyApplyWrites ==
    [][file' # file => \E io \in SaveOutcomes : apply_settings(io)]_vars

\* Live edits, a toggle and an open dialog, and still no file.
C4_Witness ==
    /\ pc = "running"
    /\ dialog.visible
    /\ ~overlay.visible
    /\ overlay.size = SIZE_MAX
    /\ overlay.color # QColor(CHANNEL_MAX, CHANNEL_MAX, CHANNEL_MAX)
    /\ file = Missing

C6_DialogSeededFromOverlay ==
    [][open_settings =>
          /\ DialogAppearance(dialog') = Appearance(overlay')
          /\ Appearance(overlay') = Appearance(overlay)]_vars

TrayMatchesOverlay ==
    /\ tray.is_overlay_visible = overlay.visible
    /\ (tray.toggle_text = "Hide Crosshair") = overlay.visible
    /\ (tray.toggle_text = "Show Crosshair") = ~overlay.visible

\* C7: while the program runs the tray's flag equals the overlay's
\* visibility and the menu label is "Hide Crosshair" exactly when the
\* overlay is visible, "Show Crosshair" exactly when it is hidden; the flag
\* is true at startup; a menu toggle or a left click flips flag, label and
\* visibility together.
C7_TrayTracksVisibility ==
    [][/\ pc' = "running" => TrayMatchesOverlay'
       /\ (pc # "running" /\ pc' = "running") => tray'.is_overlay_visible
       /\ (toggle_overlay \/ on_tray_icon_activated("Trigger")) =>
             /\ tray'.is_overlay_visible = ~tray.is_overlay_visible
             /\ overlay'.visible = ~overlay.visible
             /\ tray'.toggle_text # tray.toggle_text]_vars

\* Hidden by a toggle while the dialog is open.
C7_Witness ==
    /\ pc = "running"
    /\ ~overlay.visible
    /\ ~tray.is_overlay_visible
    /\ tray.toggle_text = "Show Crosshair"
    /\ dialog.visible

\* C8: Exit can be triggered in every running state; once triggered the
\* overlay is hidden, and the process then ends with exit code 0 and no
\* overlay shown.
C8_ExitTerminates ==
    /\ [](pc = "running" => ENABLED exit_app)
    /\ [](pc = "quitting" => ~overlay.visible)
    /\ (pc = "quitting") ~> (pc = "exited" /\ exitCode = 0 /\ ~overlay.visible)

\* Exit was triggered with the dialog open and the overlay shown.
C8_Witness ==
    /\ pc = "quitting"
    /\ dialog.visible
    /\ tray.is_overlay_visible

\* C9: a save either leaves settings.json as it was or leaves a complete
\* record in it: no Apply produces an empty or partial file.
C9_SaveAtomic ==
    [][\A io \in SaveOutcomes :
          apply_settings(io) => (file' = file \/ CompleteRecord(file'))]_vars

LivePreview ==
    /\ Appearance(overlay) = DialogAppearance(dialog)
    /\ \A scr \in ScreenSizes :
          paintEvent(overlay, scr[1], scr[2]).rect
            = <<scr[1] \div 2 - dialog.size_slider, scr[2] \div 2 - dialog.size_slider,
                2 * dialog.size_slider, 2 * dialog.size_slider>>

\* C10: right after a slider move or a confirmed colour, with the file
\* untouched, the overlay's appearance is (size slider, thickness slider,
\* held colour, transparency slider) and the rectangle it draws is
\* (cx - size, cy - size, 2 size, 2 size), so (cx-1, cy-1, 2, 2) at size 1
\* and (cx-20, cy-20, 40, 40) at size 20; a cancelled colour prompt changes
\* neither the held colour nor the overlay.
C10_LivePreview ==
    [][/\ \A slider \in Sliders : \A v \in SliderPicks(slider) :
             valueChanged(slider, v) =>
                 /\ dialog'[slider] = v
                 /\ LivePreview'
                 /\ file' = file
       /\ \A color \in Palette :
             open_color_dialog(color) =>
                 /\ dialog'.color = color
                 /\ LivePreview'
                 /\ file' = file
       /\ open_color_dialog(InvalidColor) =>
             /\ dialog'.color = dialog.color
             /\ overlay' = overlay]_vars

\* A slider moved to 20 and a colour picked, nothing applied.
C10_Witness ==
    /\ pc = "running"
    /\ dialog.visible
    /\ dialog.size_slider = SIZE_MAX
    /\ overlay.size = SIZE_MAX
    /\ overlay.color = QColor(0, CHANNEL_MAX, 20)
    /\ \A scr \in ScreenSizes :
          paintEvent(overlay, scr[1], scr[2]).rect
            = <<scr[1] \div 2 - 20, scr[2] \div 2 - 20, 40, 40>>
    /\ file = Missing

====
